---- MODULE Spec2Model ----
(***************************************************************************)
(* Model of ci_cd_assistant.py: a single-pass pipeline that reads a pull   *)
(* request (metadata, file patches), builds a prompt, calls a chat model   *)
(* and posts the reply as a PR comment.                                    *)
(*                                                                         *)
(* Python text is modelled by TLA+ strings (Len, \o and SubSeq work on     *)
(* them character by character).  Python / JSON values are tagged records. *)
(***************************************************************************)
EXTENDS Integers, Sequences, FiniteSets, TLC

-----------------------------------------------------------------------------
(* Python values: None, str, list, dict (insertion-ordered key/value pairs) *)

PyNone == [t |-> "none"]
PyStr(s) == [t |-> "str", s |-> s]
PyList(xs) == [t |-> "list", items |-> xs]
PyDict(kv) == [t |-> "dict", kv |-> kv]
KV(k, v) == [k |-> k, v |-> v]

(* the outcome of an expression that raised the exception exc *)
Raise(exc) == [t |-> "raise", exc |-> exc]
IsRaise(v) == v.t = "raise"

(* Python truthiness: `not x`, `if x`, `x or y` *)
Truthy(v) ==
    CASE v.t = "none" -> FALSE
      [] v.t = "str"  -> v.s # ""
      [] v.t = "list" -> v.items # <<>>
      [] v.t = "dict" -> v.kv # <<>>

(* f"{v}" for the values the inputs range over: a str is itself, None is "None" *)
Fmt(v) == IF v.t = "str" THEN v.s ELSE "None"

HasKey(d, key) == \E i \in 1..Len(d.kv) : d.kv[i].k = key

(* d.get(key, default) on a dict *)
DictGet(d, key, default) ==
    IF HasKey(d, key)
    THEN d.kv[CHOOSE i \in 1..Len(d.kv) : d.kv[i].k = key].v
    ELSE default

-----------------------------------------------------------------------------
(* String helpers *)

CharAt(s, i) == SubSeq(s, i, i)

Slice(s, a, b) == IF b < a THEN "" ELSE SubSeq(s, a, b)

(* needle in hay *)
Contains(hay, needle) ==
    \E i \in 1..(Len(hay) - Len(needle) + 1) :
        SubSeq(hay, i, i + Len(needle) - 1) = needle

(* index of the first occurrence of needle in hay at or after position from, 0 if none *)
FindFrom(hay, needle, from) ==
    LET hits == {i \in from..(Len(hay) - Len(needle) + 1) :
                    SubSeq(hay, i, i + Len(needle) - 1) = needle}
    IN IF hits = {} THEN 0 ELSE CHOOSE i \in hits : \A j \in hits : i <= j

StartsWith(s, p) == Len(p) <= Len(s) /\ Slice(s, 1, Len(p)) = p

(* sep.join(parts) *)
RECURSIVE Join(_, _)
Join(sep, parts) ==
    IF parts = <<>> THEN ""
    ELSE IF Len(parts) = 1 THEN parts[1]
    ELSE parts[1] \o sep \o Join(sep, Tail(parts))

(* s.split("\n") *)
SplitLines(s) ==
    LET nl == {i \in 1..Len(s) : CharAt(s, i) = "\n"}
        n == Cardinality(nl)
        (* position of the k-th newline; 0 for k = 0, Len(s)+1 for k = n+1 *)
        pos(k) == IF k = 0 THEN 0
                  ELSE IF k = n + 1 THEN Len(s) + 1
                  ELSE CHOOSE i \in nl : Cardinality({j \in nl : j < i}) = k - 1
    IN [k \in 1..(n + 1) |-> Slice(s, pos(k - 1) + 1, pos(k) - 1)]

-----------------------------------------------------------------------------
(* textwrap.dedent (standard library), called by build_prompt *)

IsWs(c) == c = " " \/ c = "\t"

\* a line that consists of spaces and tabs only (_whitespace_only_re)
WhitespaceOnly(line) == line # "" /\ \A i \in 1..Len(line) : IsWs(CharAt(line, i))

\* the leading run of spaces and tabs of a line that has another character
\* (_leading_whitespace_re)
LeadingWhitespace(line) ==
    LET k == CHOOSE i \in 1..Len(line) :
                 /\ ~IsWs(CharAt(line, i))
                 /\ \A j \in 1..(i - 1) : IsWs(CharAt(line, j))
    IN Slice(line, 1, k - 1)

CommonPrefix(a, b) ==
    LET m == IF Len(a) < Len(b) THEN Len(a) ELSE Len(b)
        k == CHOOSE i \in 0..m :
                 /\ Slice(a, 1, i) = Slice(b, 1, i)
                 /\ (i = m \/ CharAt(a, i + 1) # CharAt(b, i + 1))
    IN Slice(a, 1, k)

(* one step of the loop over indents; margin is <<>> for None, else <<m>> *)
MarginStep(margin, indent) ==
    IF margin = <<>> THEN <<indent>>
    ELSE IF StartsWith(indent, margin[1]) THEN margin
    ELSE IF StartsWith(margin[1], indent) THEN <<indent>>
    ELSE <<CommonPrefix(margin[1], indent)>>

RECURSIVE Margin(_, _, _)
Margin(lines, k, margin) ==
    IF k > Len(lines) THEN margin
    ELSE IF lines[k] = "" THEN Margin(lines, k + 1, margin)
    ELSE Margin(lines, k + 1, MarginStep(margin, LeadingWhitespace(lines[k])))

dedent(text) ==
    LET raw == SplitLines(text)
        (* text = _whitespace_only_re.sub('', text) *)
        lines == [k \in 1..Len(raw) |-> IF WhitespaceOnly(raw[k]) THEN "" ELSE raw[k]]
        margin == Margin(lines, 1, <<>>)
        m == IF margin = <<>> THEN "" ELSE margin[1]
        (* if margin: text = re.sub(r'(?m)^' + margin, '', text) *)
        out == [k \in 1..Len(lines) |->
                  IF m # "" /\ StartsWith(lines[k], m)
                  THEN Slice(lines[k], Len(m) + 1, Len(lines[k]))
                  ELSE lines[k]]
    IN Join("\n", out)

-----------------------------------------------------------------------------
(* Config *)

OPENROUTER_URL == "https://openrouter.ai/api/v1/chat/completions"
DEEPSEEK_MODEL == "deepseek/deepseek-r1:free"
MAX_DIFF_CHARS == 20000
AI_MAX_TOKENS == 1500
(* the float 0.1, kept as its literal *)
TEMPERATURE == "0.1"

-----------------------------------------------------------------------------
(* build_diff_text *)

TRUNCATION_SUFFIX == "\n\n...[diff truncated]..."

FileHeader(filename) == "\n\n# File: " \o Fmt(filename) \o "\n"

(* variant: the placeholder does not name the file *)
NoPatchPlaceholder_anonymous(filename) == "[no patch available (binary or too large)]"

NoPatchPlaceholder(filename) ==
    "[no patch available for " \o Fmt(filename) \o " (binary or too large)]"

(* the body of the for loop: the part appended for one element f, or Raise *)
DiffPart(f) ==
    IF f.t # "dict" THEN Raise("AttributeError")       \* f.get on a non-dict
    ELSE LET filename == DictGet(f, "filename", PyStr("<unknown>"))
             patch == DictGet(f, "patch", PyNone)
             header == FileHeader(filename)
         IN IF Truthy(patch)
            THEN IF patch.t = "str" THEN PyStr(header \o patch.s)
                 ELSE Raise("TypeError")               \* str + non-str
            ELSE PyStr(header \o NoPatchPlaceholder(filename))

(* what `for f in files_json` iterates over: list elements, dict keys *)
IterItems(v) ==
    CASE v.t = "list" -> v.items
      [] v.t = "dict" -> [i \in 1..Len(v.kv) |-> PyStr(v.kv[i].k)]

(* full = "\n".join(parts), for items whose parts all exist *)
JoinedDiff(items) == Join("\n", [i \in 1..Len(items) |-> DiffPart(items[i]).s])

(* variant: the notice is appended to the uncut text *)
Truncate_uncut(full, max_chars) ==
    IF Len(full) > max_chars THEN full \o TRUNCATION_SUFFIX ELSE full

(* variant: the text is cut but no notice is appended *)
Truncate_silent(full, max_chars) ==
    IF Len(full) > max_chars THEN Slice(full, 1, max_chars) ELSE full

(* full[:max_chars] plus the notice when full is too long *)
Truncate(full, max_chars) ==
    IF Len(full) > max_chars
    THEN Slice(full, 1, max_chars) \o TRUNCATION_SUFFIX
    ELSE full

(* returns PyStr(text), or the exception of the first element that raised *)
build_diff_text(files_json, max_chars) ==
    IF files_json.t \notin {"list", "dict"} THEN Raise("TypeError")   \* not iterable
    ELSE LET items == IterItems(files_json)
             bad == {i \in 1..Len(items) : IsRaise(DiffPart(items[i]))}
         IN IF bad # {}
            THEN DiffPart(items[CHOOSE i \in bad : \A j \in bad : i <= j])
            ELSE PyStr(Truncate(JoinedDiff(items), max_chars))

-----------------------------------------------------------------------------
(* build_prompt *)

PROMPT_HEAD == "\n    You are a helpful CI assistant. Given a pull request title, description and code diff, do the following:\n\n    1) Produce an improved PR description (clear, 2-4 sentences).\n    2) Provide a short human-readable summary of the code changes (3-6 sentences).\n    3) Suggest tests / checks that appear to be missing or desirable (bullet list).\n    4) Provide any quick code quality notes (possible bugs, style issues, risky changes).\n    \n    Reply in Markdown. Use headings:\n    ## Improved PR Description\n    ## Summary\n    ## Suggested Tests\n    ## Notes\n\n    PR Title:\n    "
PROMPT_DESCRIPTION == "\n\n    PR Description:\n    "
PROMPT_DIFF == "\n\n    Diff (truncated):\n    "
PROMPT_TAIL == "\n\n    IMPORTANT: Keep the answer concise and practical.\n    "

(* the f-string is filled in first, dedent is applied to the filled-in text *)
build_prompt(pr_title, pr_body, diff_text) ==
    dedent(PROMPT_HEAD \o Fmt(pr_title) \o PROMPT_DESCRIPTION \o Fmt(pr_body)
           \o PROMPT_DIFF \o diff_text \o PROMPT_TAIL)

-----------------------------------------------------------------------------
(* json.dumps(res, indent=2) (standard library), called by call_deepseek *)

EscapeChar(c) ==
    CASE c = "\"" -> "\\\""
      [] c = "\\" -> "\\\\"
      [] c = "\n" -> "\\n"
      [] c = "\t" -> "\\t"
      [] OTHER    -> c

JsonString(s) == "\"" \o Join("", [i \in 1..Len(s) |-> EscapeChar(CharAt(s, i))]) \o "\""

RECURSIVE Indent(_)
Indent(level) == IF level = 0 THEN "" ELSE "  " \o Indent(level - 1)

RECURSIVE JsonDumps(_, _)
JsonDumps(v, level) ==
    CASE v.t = "none" -> "null"
      [] v.t = "str"  -> JsonString(v.s)
      [] v.t = "list" ->
            IF v.items = <<>> THEN "[]"
            ELSE "[\n" \o Indent(level + 1)
                 \o Join(",\n" \o Indent(level + 1),
                         [i \in 1..Len(v.items) |-> JsonDumps(v.items[i], level + 1)])
                 \o "\n" \o Indent(level) \o "]"
      [] v.t = "dict" ->
            IF v.kv = <<>> THEN "{}"
            ELSE "{\n" \o Indent(level + 1)
                 \o Join(",\n" \o Indent(level + 1),
                         [i \in 1..Len(v.kv) |->
                            JsonString(v.kv[i].k) \o ": " \o JsonDumps(v.kv[i].v, level + 1)])
                 \o "\n" \o Indent(level) \o "}"

json_dumps(res) == JsonDumps(res, 0)

-----------------------------------------------------------------------------
(* Subscripting, as in res["choices"][0]["message"]["content"] *)

(* v[key] for a str key *)
GetItemKey(v, key) ==
    IF IsRaise(v) THEN v
    ELSE IF v.t = "dict"
         THEN IF HasKey(v, key) THEN DictGet(v, key, PyNone) ELSE Raise("KeyError")
         ELSE Raise("TypeError")

(* v[0] *)
GetItem0(v) ==
    IF IsRaise(v) THEN v
    ELSE CASE v.t = "list" -> IF v.items = <<>> THEN Raise("IndexError") ELSE v.items[1]
           [] v.t = "str"  -> IF v.s = "" THEN Raise("IndexError") ELSE PyStr(CharAt(v.s, 1))
           [] v.t = "dict" -> Raise("KeyError")
           [] v.t = "none" -> Raise("TypeError")

(* variant: an unexpected shape yields an empty reply *)
ExtractContent_empty(res) ==
    LET content == GetItemKey(GetItemKey(GetItem0(GetItemKey(res, "choices")), "message"), "content")
    IN IF IsRaise(content) THEN PyStr("") ELSE content

(* the try/except of call_deepseek: the content, or the raw JSON when the path is missing *)
ExtractContent(res) ==
    LET content == GetItemKey(GetItemKey(GetItem0(GetItemKey(res, "choices")), "message"), "content")
    IN IF IsRaise(content) THEN PyStr(json_dumps(res)) ELSE content

-----------------------------------------------------------------------------
(* HTTP: what the environment may answer to a request *)

(* status codes a server may answer with: success, an unfollowed redirect, *)
(* client error, server error                                              *)
Statuses == {200, 300, 404, 500}

(* no response at all: connection error or timeout (requests.RequestException) *)
NetErr == [t |-> "neterr"]

(* a body that is not JSON: r.json() raises *)
NoJson == [t |-> "nojson"]

Response(status, body) == [t |-> "resp", status |-> status, body |-> body]

Responses(bodies) ==
    {NetErr} \cup {Response(st, b) : st \in Statuses, b \in bodies \cup {NoJson}}

(* variant: the status is never checked *)
raise_for_status_never(status) == FALSE

(* r.raise_for_status(): HTTPError for 4xx and 5xx, nothing otherwise *)
raise_for_status(status) == status \in 400..599

(* requests.get/post, r.raise_for_status(), return r.json() *)
HttpReturn(reply) ==
    IF reply.t = "neterr" THEN Raise("RequestException")
    ELSE IF raise_for_status(reply.status) THEN Raise("HTTPError")
    ELSE IF reply.body = NoJson THEN Raise("JSONDecodeError")
    ELSE reply.body

-----------------------------------------------------------------------------
(* Inputs *)

MaxFiles == 2
SmallBudget == 40

RECURSIVE Rep(_, _)
Rep(c, n) ==
    IF n = 0 THEN ""
    ELSE IF n % 2 = 0 THEN LET h == Rep(c, n \div 2) IN h \o h
    ELSE c \o Rep(c, n - 1)

(* a patch as long as the whole budget *)
BigPatch == Rep("+", MAX_DIFF_CHARS)

FilePlain == PyDict(<<KV("filename", PyStr("a.py")), KV("patch", PyStr("@@ -1 +1 @@\n-x\n+y"))>>)
FileBlankLine == PyDict(<<KV("filename", PyStr("b.py")), KV("patch", PyStr("+z\n \n+w"))>>)
FileNoPatch == PyDict(<<KV("filename", PyStr("logo.png"))>>)
FileNullPatch == PyDict(<<KV("filename", PyStr("c.txt")), KV("patch", PyNone)>>)
FileBig == PyDict(<<KV("filename", PyStr("big.py")), KV("patch", PyStr(BigPatch))>>)

FileRecords == {FilePlain, FileBlankLine, FileNoPatch, FileNullPatch, FileBig}

FileLists == {PyList(xs) : xs \in UNION {[1..n -> FileRecords] : n \in 0..MaxFiles}}

Budgets == {0, SmallBudget, MAX_DIFF_CHARS}

(* each variable may be unset, empty or set *)
Environments ==
    [GITHUB_REPOSITORY : {PyNone, PyStr(""), PyStr("octo/repo")},
     GITHUB_TOKEN : {PyNone, PyStr(""), PyStr("ghs_token")},
     PR_NUMBER : {PyNone, PyStr(""), PyStr("7"), PyStr("42")},
     OPENROUTER_API_KEY : {PyNone, PyStr(""), PyStr("sk-or-key")}]

FullEnv ==
    [GITHUB_REPOSITORY |-> PyStr("octo/repo"), GITHUB_TOKEN |-> PyStr("ghs_token"),
     PR_NUMBER |-> PyStr("7"), OPENROUTER_API_KEY |-> PyStr("sk-or-key")]

MetaBodies ==
    {PyDict(<<KV("title", PyStr("Fix bug")), KV("body", PyStr("Fixes the\n  parser"))>>),
     PyDict(<<KV("title", PyStr("Fix bug")), KV("body", PyNone)>>),
     PyDict(<<KV("message", PyStr("Moved"))>>),
     PyList(<<>>)}

FilesBodies ==
    {PyList(<<>>),
     PyList(<<FilePlain, FileNoPatch>>),
     PyList(<<FileBlankLine, FileNullPatch>>),
     PyList(<<FileBig, FileNoPatch>>),
     PyList(<<FilePlain, PyStr("b.py")>>),
     PyList(<<PyDict(<<KV("filename", PyStr("d.py")), KV("patch", PyList(<<PyStr("+x")>>))>>)>>),
     PyDict(<<KV("message", PyStr("Not Found"))>>),
     PyNone}

ModelBodies ==
    {PyDict(<<KV("choices", PyList(<<PyDict(<<KV("message",
         PyDict(<<KV("role", PyStr("assistant")), KV("content", PyStr("## Summary\nLooks \"fine\"."))>>))>>)>>))>>),
     PyDict(<<KV("choices", PyList(<<PyDict(<<KV("message",
         PyDict(<<KV("content", PyNone)>>))>>)>>))>>),
     PyDict(<<KV("error", PyDict(<<KV("message", PyStr("rate \"limit\"\n"))>>))>>),
     PyDict(<<KV("choices", PyList(<<>>))>>),
     PyDict(<<KV("choices", PyList(<<PyDict(<<KV("text", PyStr("hi"))>>)>>))>>),
     PyDict(<<KV("choices", PyList(<<PyDict(<<KV("message", PyNone)>>)>>))>>),
     PyDict(<<KV("choices", PyStr("abc"))>>),
     PyList(<<>>)}

PostBodies ==
    {PyDict(<<KV("id", PyStr("1001"))>>),
     PyDict(<<KV("message", PyStr("Not Found"))>>),
     PyList(<<>>)}

-----------------------------------------------------------------------------
(* State *)

VARIABLES
    env,            \* os.getenv of the four variables: PyNone or PyStr
    pc,             \* position in the script
    calls,          \* outbound HTTP requests issued so far, in order
    replies,        \* what each request was answered with
    pr_title, pr_body, files, max_chars, diff_text, prompt,
    ai_response, comment_body,      \* locals of main / arguments of the builders
    raised,         \* the exception main caught, "none" if none
    exit_code       \* <<>> while running, <<n>> once the process has exited with n

vars == <<env, pc, calls, replies, pr_title, pr_body, files, max_chars, diff_text,
          prompt, ai_response, comment_body, raised, exit_code>>

GITHUB_REPOSITORY == env.GITHUB_REPOSITORY
GITHUB_TOKEN == env.GITHUB_TOKEN
PR_NUMBER == env.PR_NUMBER
OPENROUTER_API_KEY == env.OPENROUTER_API_KEY

GITHUB_API_URL == "https://api.github.com/repos/" \o Fmt(GITHUB_REPOSITORY)

GithubHeaders ==
    [Authorization |-> "token " \o Fmt(GITHUB_TOKEN), Accept |-> "application/vnd.github.v3+json"]

Locals0 ==
    /\ calls = <<>>
    /\ replies = <<>>
    /\ diff_text = ""
    /\ prompt = ""
    /\ ai_response = PyNone
    /\ comment_body = ""
    /\ raised = "none"
    /\ exit_code = <<>>

Init ==
    /\ env \in Environments
    /\ pc = "start"
    /\ pr_title = PyNone
    /\ pr_body = PyNone
    /\ files = PyNone
    /\ max_chars = MAX_DIFF_CHARS
    /\ Locals0

-----------------------------------------------------------------------------
(* The script *)

(* variant: PR_NUMBER is left out of the check *)
ConfigMissing_withoutPrNumber ==
    \/ ~Truthy(GITHUB_REPOSITORY)
    \/ ~Truthy(GITHUB_TOKEN)
    \/ ~Truthy(OPENROUTER_API_KEY)

(* the module-level check: `if not GITHUB_REPOSITORY or not GITHUB_TOKEN or ...` *)
ConfigMissing ==
    \/ ~Truthy(GITHUB_REPOSITORY)
    \/ ~Truthy(GITHUB_TOKEN)
    \/ ~Truthy(PR_NUMBER)
    \/ ~Truthy(OPENROUTER_API_KEY)

(* sys.exit(code) *)
Exit(code) ==
    /\ exit_code' = <<code>>
    /\ pc' = "exit"

(* variant: the handler reports the error and exits with status 0 *)
Except_status0(exc) ==
    /\ raised' = exc
    /\ Exit(0)

(* the except clauses of main: both end in sys.exit(1) *)
Except(exc) ==
    /\ raised' = exc
    /\ Exit(1)

(* import time: read the environment, exit 1 when a variable is missing *)
Start ==
    /\ pc = "start"
    /\ IF ConfigMissing
       THEN Exit(1)
       ELSE /\ pc' = "meta"
            /\ UNCHANGED exit_code
    /\ UNCHANGED <<env, calls, replies, pr_title, pr_body, files, max_chars, diff_text,
                   prompt, ai_response, comment_body, raised>>

MetaRequest(pr_number) ==
    [fn |-> "get_pr_meta", method |-> "GET",
     url |-> GITHUB_API_URL \o "/pulls/" \o Fmt(pr_number),
     headers |-> GithubHeaders, timeout |-> 30]

FilesRequest(pr_number) ==
    [fn |-> "get_pr_files_patches", method |-> "GET",
     url |-> GITHUB_API_URL \o "/pulls/" \o Fmt(pr_number) \o "/files",
     headers |-> GithubHeaders, timeout |-> 30]

ModelRequest(text) ==
    [fn |-> "call_deepseek", method |-> "POST", url |-> OPENROUTER_URL,
     headers |-> [Authorization |-> "Bearer " \o Fmt(OPENROUTER_API_KEY),
                  ContentType |-> "application/json"],
     json |-> [model |-> DEEPSEEK_MODEL,
               messages |-> <<[role |-> "system",
                               content |-> "You are a CI/CD assistant that summarizes diffs and suggests tests."],
                              [role |-> "user", content |-> text]>>,
               temperature |-> TEMPERATURE,
               max_tokens |-> AI_MAX_TOKENS],
     timeout |-> 60]

(* variant: the comment goes to the pulls endpoint *)
CommentRequest_pulls(pr_number, body) ==
    [fn |-> "post_pr_comment", method |-> "POST",
     url |-> GITHUB_API_URL \o "/pulls/" \o Fmt(pr_number) \o "/comments",
     headers |-> GithubHeaders, json |-> [body |-> body], timeout |-> 30]

CommentRequest(pr_number, body) ==
    [fn |-> "post_pr_comment", method |-> "POST",
     url |-> GITHUB_API_URL \o "/issues/" \o Fmt(pr_number) \o "/comments",
     headers |-> GithubHeaders, json |-> [body |-> body], timeout |-> 30]

(* pr.get("title", "") *)
PrTitle(pr) == DictGet(pr, "title", PyStr(""))

(* pr.get("body", "") or "" *)
PrBody(pr) ==
    LET b == DictGet(pr, "body", PyStr("")) IN IF Truthy(b) THEN b ELSE PyStr("")

(* the f-string of main; the heading's pictograph is left out *)
CommentBody(title, response) ==
    "## CI/CD Assistant Review\n\n"
    \o "**PR:** " \o Fmt(title) \o "\n\n"
    \o "**AI analysis:**\n\n"
    \o Fmt(response) \o "\n\n"
    \o "*(This comment was generated automatically by the repository's CI/CD Assistant)*"

(* variant: the id is read without touching the reply *)
PostedId_unread(post) == PyNone

(* post.get("id") *)
PostedId(post) ==
    IF post.t # "dict" THEN Raise("AttributeError") ELSE DictGet(post, "id", PyNone)

(* pr = get_pr_meta(PR_NUMBER); pr_title = ...; pr_body = ... *)
GetPrMeta ==
    /\ pc = "meta"
    /\ \E reply \in Responses(MetaBodies) :
         LET pr == HttpReturn(reply) IN
         /\ calls' = Append(calls, MetaRequest(PR_NUMBER))
         /\ replies' = Append(replies, reply)
         /\ IF IsRaise(pr)
            THEN Except(pr.exc) /\ UNCHANGED <<pr_title, pr_body>>
            ELSE IF pr.t # "dict"
            THEN Except("AttributeError") /\ UNCHANGED <<pr_title, pr_body>>
            ELSE /\ pr_title' = PrTitle(pr)
                 /\ pr_body' = PrBody(pr)
                 /\ pc' = "files"
                 /\ UNCHANGED <<raised, exit_code>>
    /\ UNCHANGED <<env, files, max_chars, diff_text, prompt, ai_response, comment_body>>

(* files = get_pr_files_patches(PR_NUMBER); diff_text = build_diff_text(...); *)
(* prompt = build_prompt(...)                                                *)
GetPrFilesPatches ==
    /\ pc = "files"
    /\ \E reply \in Responses(FilesBodies) :
         LET got == HttpReturn(reply)
             diff == build_diff_text(got, MAX_DIFF_CHARS)
         IN
         /\ calls' = Append(calls, FilesRequest(PR_NUMBER))
         /\ replies' = Append(replies, reply)
         /\ IF IsRaise(got)
            THEN Except(got.exc) /\ UNCHANGED <<files, diff_text, prompt>>
            ELSE IF IsRaise(diff)
            THEN /\ files' = got
                 /\ Except(diff.exc)
                 /\ UNCHANGED <<diff_text, prompt>>
            ELSE /\ files' = got
                 /\ diff_text' = diff.s
                 /\ prompt' = build_prompt(pr_title, pr_body, diff.s)
                 /\ pc' = "model"
                 /\ UNCHANGED <<raised, exit_code>>
    /\ UNCHANGED <<env, pr_title, pr_body, max_chars, ai_response, comment_body>>

(* ai_response = call_deepseek(prompt); comment_body = ... *)
CallDeepseek ==
    /\ pc = "model"
    /\ \E reply \in Responses(ModelBodies) :
         LET res == HttpReturn(reply) IN
         /\ calls' = Append(calls, ModelRequest(prompt))
         /\ replies' = Append(replies, reply)
         /\ IF IsRaise(res)
            THEN Except(res.exc) /\ UNCHANGED <<ai_response, comment_body>>
            ELSE /\ ai_response' = ExtractContent(res)
                 /\ comment_body' = CommentBody(pr_title, ExtractContent(res))
                 /\ pc' = "post"
                 /\ UNCHANGED <<raised, exit_code>>
    /\ UNCHANGED <<env, pr_title, pr_body, files, max_chars, diff_text, prompt>>

(* post = post_pr_comment(PR_NUMBER, comment_body); print(post.get("id")); *)
(* falling off the end of the script is exit status 0                      *)
PostPrComment ==
    /\ pc = "post"
    /\ \E reply \in Responses(PostBodies) :
         LET post == HttpReturn(reply) IN
         /\ calls' = Append(calls, CommentRequest(PR_NUMBER, comment_body))
         /\ replies' = Append(replies, reply)
         /\ IF IsRaise(post)
            THEN Except(post.exc)
            ELSE IF IsRaise(PostedId(post))
            THEN Except(PostedId(post).exc)
            ELSE Exit(0) /\ UNCHANGED raised
    /\ UNCHANGED <<env, pr_title, pr_body, files, max_chars, diff_text, prompt,
                   ai_response, comment_body>>

Next ==
    \/ Start
    \/ GetPrMeta
    \/ GetPrFilesPatches
    \/ CallDeepseek
    \/ PostPrComment

Spec == Init /\ [][Next]_vars

-----------------------------------------------------------------------------
(* The builders on their own: build_diff_text with any budget, then build_prompt *)

InitDiff ==
    /\ env = FullEnv
    /\ pc = "diff"
    /\ pr_title \in {PyStr("Fix bug")}
    /\ pr_body \in {PyStr(""), PyStr("Fixes the\n  parser")}
    /\ files \in FileLists
    /\ max_chars \in Budgets
    /\ Locals0

BuildDiffText ==
    /\ pc = "diff"
    /\ diff_text' = build_diff_text(files, max_chars).s
    /\ pc' = "prompt"
    /\ UNCHANGED <<env, calls, replies, pr_title, pr_body, files, max_chars, prompt,
                   ai_response, comment_body, raised, exit_code>>

BuildPrompt ==
    /\ pc = "prompt"
    /\ prompt' = build_prompt(pr_title, pr_body, diff_text)
    /\ pc' = "built"
    /\ UNCHANGED <<env, calls, replies, pr_title, pr_body, files, max_chars, diff_text,
                   ai_response, comment_body, raised, exit_code>>

NextDiff ==
    \/ BuildDiffText
    \/ BuildPrompt

SpecDiff == InitDiff /\ [][NextDiff]_vars

-----------------------------------------------------------------------------
(* Properties *)

(* the k-th request was answered, passed raise_for_status and decoded as JSON *)
Answered(k) ==
    /\ k <= Len(replies)
    /\ replies[k].t = "resp"
    /\ replies[k].status \notin 400..599
    /\ replies[k].body # NoJson

(* res["choices"][0]["message"]["content"] exists *)
HasContentPath(res) ==
    /\ res.t = "dict" /\ HasKey(res, "choices")
    /\ LET choices == DictGet(res, "choices", PyNone) IN
       /\ choices.t = "list" /\ choices.items # <<>>
       /\ LET first == choices.items[1] IN
          /\ first.t = "dict" /\ HasKey(first, "message")
          /\ LET message == DictGet(first, "message", PyNone) IN
             message.t = "dict" /\ HasKey(message, "content")

ContentOf(res) ==
    DictGet(DictGet(DictGet(res, "choices", PyNone).items[1], "message", PyNone), "content", PyNone)

EnvIncomplete ==
    \E n \in DOMAIN env : env[n] = PyNone \/ env[n] = PyStr("")

Built == pc \in {"prompt", "built"}

(* the joined text of the builders' input *)
Full == JoinedDiff(files.items)

(* C1 as stated: the diff text main builds is never longer than MAX_DIFF_CHARS *)
C1_DiffWithinBudget == Len(diff_text) <= MAX_DIFF_CHARS

(* C1 amended: the diff text main builds is never longer than MAX_DIFF_CHARS *)
(* plus the 24 characters of the truncation notice                           *)
C1_DiffWithinBudgetPlusNotice == Len(diff_text) <= MAX_DIFF_CHARS + 24

C1_Witness == pc = "model" /\ Len(diff_text) = MAX_DIFF_CHARS + 24

(* C2: when one of the four variables is unset or empty the process exits *)
(* with status 1 and issues no HTTP request                               *)
C2_MissingConfigNoCalls ==
    (pc # "start" /\ EnvIncomplete) => (pc = "exit" /\ exit_code = <<1>> /\ calls = <<>>)

C2_Witness ==
    /\ pc = "exit" /\ exit_code = <<1>> /\ calls = <<>>
    /\ env.PR_NUMBER = PyNone
    /\ env.GITHUB_REPOSITORY = PyStr("octo/repo")
    /\ env.GITHUB_TOKEN = PyStr("ghs_token")
    /\ env.OPENROUTER_API_KEY = PyStr("sk-or-key")

CallOrder == <<"get_pr_meta", "get_pr_files_patches", "call_deepseek", "post_pr_comment">>

(* C3: requests go out in the order metadata, files, model, comment, each at *)
(* most once, and a request goes out only after every earlier one was        *)
(* answered without error                                                    *)
C3_CallsInOrderAfterSuccess ==
    /\ Len(calls) <= 4
    /\ Len(replies) = Len(calls)
    /\ \A k \in 1..Len(calls) :
         /\ calls[k].fn = CallOrder[k]
         /\ \A j \in 1..(k - 1) : Answered(j)

C3_Witness ==
    /\ pc = "exit" /\ Len(calls) = 4 /\ exit_code = <<0>>
    /\ \A k \in 1..4 : replies[k].status = 200

(* C4: when the model answers with JSON that lacks choices[0].message.content, *)
(* call_deepseek raises nothing and returns the serialized answer, and the     *)
(* comment that main posts contains it                                         *)
C4_MalformedReplyIsPosted ==
    (Len(replies) >= 3 /\ Answered(3) /\ ~HasContentPath(replies[3].body)) =>
        /\ ai_response = PyStr(json_dumps(replies[3].body))
        /\ pc \in {"post", "exit"}
        /\ pc = "post" => (raised = "none" /\ exit_code = <<>>)
        /\ pc = "exit" =>
             /\ Len(calls) = 4
             /\ calls[4].fn = "post_pr_comment"
             /\ Contains(calls[4].json.body, json_dumps(replies[3].body))

C4_Witness ==
    /\ pc = "exit" /\ Len(calls) = 4
    /\ replies[3] = Response(200, PyDict(<<KV("choices", PyList(<<>>))>>))
    /\ Contains(calls[4].json.body, "**AI analysis:**\n\n{\n  \"choices\": []\n}\n\n")

C6_ExactTruncation ==
    Built =>
        IF Len(Full) > max_chars
        THEN /\ Len(diff_text) = max_chars + 24
             /\ Slice(diff_text, 1, max_chars) = Slice(Full, 1, max_chars)
             /\ Slice(diff_text, max_chars + 1, Len(diff_text)) = "\n\n...[diff truncated]..."
        ELSE diff_text = Full

C6_Witness ==
    /\ pc = "built" /\ max_chars = SmallBudget /\ Len(Full) > max_chars
    /\ Len(diff_text) = SmallBudget + 24

(* the header and patch of a file, as they should appear in the prompt *)
FileBlock(f) ==
    "# File: " \o DictGet(f, "filename", PyNone).s \o "\n" \o DictGet(f, "patch", PyNone).s

(* the blocks of items k.. occur in text one after the other, from position from on *)
RECURSIVE BlocksInOrder(_, _, _, _)
BlocksInOrder(text, items, k, from) ==
    IF k > Len(items) THEN TRUE
    ELSE IF ~(HasKey(items[k], "patch") /\ Truthy(DictGet(items[k], "patch", PyNone)))
    THEN BlocksInOrder(text, items, k + 1, from)
    ELSE LET at == FindFrom(text, FileBlock(items[k]), from)
         IN at # 0 /\ BlocksInOrder(text, items, k + 1, at + Len(FileBlock(items[k])))

(* C7: when the joined text is within the budget, the prompt contains every *)
(* file's header line and patch text verbatim, in input order               *)
C7_PatchesVerbatimInOrder ==
    (pc = "built" /\ Len(Full) <= max_chars) => BlocksInOrder(prompt, files.items, 1, 1)

PlaceholderLine(name) ==
    "# File: " \o name \o "\n[no patch available for " \o name \o " (binary or too large)]"

(* C8 as stated: for every file without a patch field the diff text contains *)
(* the placeholder line naming that file                                     *)
C8_PlaceholderAlways ==
    Built =>
        \A i \in 1..Len(files.items) :
            ~HasKey(files.items[i], "patch") =>
                Contains(diff_text, PlaceholderLine(DictGet(files.items[i], "filename", PyNone).s))

(* C8 amended: when the joined text is within the budget, for every file    *)
(* without a patch field the diff text contains the placeholder line naming *)
(* that file                                                                *)
C8_PlaceholderWhenWithinBudget ==
    (Built /\ Len(Full) <= max_chars) =>
        \A i \in 1..Len(files.items) :
            ~HasKey(files.items[i], "patch") =>
                Contains(diff_text, PlaceholderLine(DictGet(files.items[i], "filename", PyNone).s))

C8_Witness ==
    /\ pc = "built" /\ Len(Full) <= max_chars
    /\ \E i \in 1..Len(files.items) : files.items[i] = FileNoPatch
    /\ Contains(diff_text, "\n\n# File: logo.png\n[no patch available for logo.png (binary or too large)]")

(* C9: when the metadata fetch, the files fetch and the model call were all    *)
(* answered without error, exactly one comment is posted, to the issue-comments *)
(* endpoint of PR_NUMBER (the number both fetches used), and its only field    *)
(* body contains the fetched title and the model's reply text                  *)
C9_CommentAddressedAndFilled ==
    (Len(replies) >= 3 /\ \A k \in 1..3 : Answered(k)) =>
        /\ pc \in {"post", "exit"}
        /\ pc = "exit" =>
             LET repo == "https://api.github.com/repos/" \o env.GITHUB_REPOSITORY.s
                 number == env.PR_NUMBER.s
                 pr == replies[1].body
                 res == replies[3].body
             IN
             /\ Len(calls) = 4
             /\ {k \in 1..Len(calls) : calls[k].fn = "post_pr_comment"} = {4}
             /\ calls[1].url = repo \o "/pulls/" \o number
             /\ calls[2].url = repo \o "/pulls/" \o number \o "/files"
             /\ calls[4].url = repo \o "/issues/" \o number \o "/comments"
             /\ calls[4].method = "POST"
             /\ DOMAIN calls[4].json = {"body"}
             /\ (HasKey(pr, "title") /\ DictGet(pr, "title", PyNone).t = "str") =>
                    Contains(calls[4].json.body, DictGet(pr, "title", PyNone).s)
             /\ (HasContentPath(res) /\ ContentOf(res).t = "str") =>
                    Contains(calls[4].json.body, ContentOf(res).s)

C9_Witness ==
    /\ pc = "exit" /\ exit_code = <<0>> /\ Len(calls) = 4
    /\ env.PR_NUMBER = PyStr("42")
    /\ calls[4].url = "https://api.github.com/repos/octo/repo/issues/42/comments"
    /\ Contains(calls[4].json.body, "**PR:** Fix bug\n")
    /\ Contains(calls[4].json.body, "## Summary\nLooks \"fine\".")

(* C10 as stated: the exit status is 0 exactly when the comment post was *)
(* answered with a 2xx status                                            *)
C10_ExitZeroIffPost2xx ==
    pc = "exit" =>
        (exit_code = <<0>> <=>
            (Len(replies) = 4 /\ replies[4].t = "resp" /\ replies[4].status \in 200..299))

(* C10 amended: the exit status is 0 exactly when the comment post was      *)
(* answered with a status other than 4xx/5xx and a body that is a JSON      *)
(* object; a post answered 2xx with another body still ends in status 1     *)
C10_ExitZeroIffPostAccepted ==
    pc = "exit" =>
        (exit_code = <<0>> <=>
            (/\ Len(replies) = 4
             /\ replies[4].t = "resp"
             /\ replies[4].status \notin 400..599
             /\ replies[4].body.t = "dict"))

C10_Witness ==
    /\ pc = "exit" /\ exit_code = <<1>> /\ Len(replies) = 4
    /\ replies[4] = Response(200, PyList(<<>>))

====
